---- MODULE Spec2Model ----
(***************************************************************************)
(* A model of the reMarkable daily planner: the calendar fetcher           *)
(* (calendar_fetcher.py), the PDF generator (pdf_generator.py) and the     *)
(* request handler (app.py).                                               *)
(*                                                                         *)
(* Time.  A calendar date is an integer day number.  A datetime value is   *)
(* a record of its wall-clock fields (day, minute of the day) and the      *)
(* UTC offset, in minutes, of the tzinfo it carries; the instant it        *)
(* denotes is day * 1440 + min - off minutes after 00:00 UTC of day 0.     *)
(***************************************************************************)
EXTENDS Integers, Sequences, FiniteSets, TLC

VARIABLES
    \* CalendarFetcher.fetch_events
    urls,         \* the feeds behind self.urls, in order: what each request yields
    window,       \* [start_date, end_date] of the call
    url_idx,      \* position of the loop over self.urls (1-based)
    all_events,   \* the list all_events
    origin,       \* for each element of all_events: <<feed, component, occurrence>> it came from
    fetch_pc,     \* "idle" | "loop" | "done"
    fetch_result  \* the returned list, with the permutation the sort applied

fetch_vars == <<urls, window, url_idx, all_events, origin, fetch_pc, fetch_result>>

VARIABLES
    \* one call of the occurrence expander, as fetch_events makes it per VEVENT
    exp_call,     \* [event, start_date, end_date]
    exp_out,      \* the occurrences returned
    exp_pc        \* "idle" | "call" | "done"

exp_vars == <<exp_call, exp_out, exp_pc>>

VARIABLES
    \* PDFGenerator.generate_pdf
    pdf_call,     \* [start_date, end_date, events, start_hour, end_hour, show_todos]
    day_offset,   \* the loop variable of generate_pdf
    pages,        \* the pages of the canvas, in the order they were begun
    pdf_pc        \* "idle" | "draw" | "show" | "save" | "done"

pdf_vars == <<pdf_call, day_offset, pages, pdf_pc>>

VARIABLES
    \* one call of PDFGenerator._wrap_text
    wrap_call,    \* [text, max_chars_per_line, max_lines]
    wrap_out,     \* the lines returned
    wrap_pc       \* "idle" | "call" | "done"

wrap_vars == <<wrap_call, wrap_out, wrap_pc>>

VARIABLES
    \* app.generate_calendar, one request
    form,         \* request.form, and the date of the server's clock
    app_pc,       \* "idle" | "validate" | "fetch" | "generate" | "send" | "responded"
    app_args,     \* what validation computed: [start_date, end_date, start_hour, end_hour]
    fetch_calls,  \* the calls of CalendarFetcher.fetch_events made
    output_file,  \* "none" | "written" | "removed": the file at output_path
    response      \* [status, error]

app_vars == <<form, app_pc, app_args, fetch_calls, output_file, response>>

vars == <<fetch_vars, exp_vars, pdf_vars, wrap_vars, app_vars>>

\* what an action of one component leaves alone
not_fetch == <<exp_vars, pdf_vars, wrap_vars, app_vars>>
not_exp == <<fetch_vars, pdf_vars, wrap_vars, app_vars>>
not_pdf == <<fetch_vars, exp_vars, wrap_vars, app_vars>>
not_wrap == <<fetch_vars, exp_vars, pdf_vars, app_vars>>
not_app == <<fetch_vars, exp_vars, pdf_vars, wrap_vars>>

----------------------------------------------------------------------------
(* Bounds of the model *)

\* Dates range over 0..MaxDay.
MaxDay == 3
\* Daylight saving time begins on this day at 02:00 local standard time.
DstStartDay == 2
\* fetch_events is called with at most this many URLs.
MaxFeeds == 2
\* generate_pdf is called with at most this many occurrences.
MaxPdfEvents == 3
\* _wrap_text is called with a text of at most this many characters,
MaxTextLen == 6
\* with max_chars_per_line in MinChars .. MaxChars
MaxChars == 4
\* and with max_lines in 1 .. MaxLines.
MaxLines == 2

Days == 0 .. MaxDay
DayMin == 24 * 60

----------------------------------------------------------------------------
(* datetime.date / datetime.datetime values *)

None == [kind |-> "none", day |-> 0, min |-> 0, off |-> 0]
Date(d) == [kind |-> "date", day |-> d, min |-> 0, off |-> 0]
\* an aware datetime: wall-clock fields and the utcoffset of its tzinfo
DateTime(d, m, o) == [kind |-> "datetime", day |-> d, min |-> m, off |-> o]
\* a naive datetime (tzinfo is None)
Naive(d, m) == [kind |-> "naive", day |-> d, min |-> m, off |-> 0]

IsDateTime(v) == v.kind \in {"datetime", "naive"}
IsDate(v) == v.kind = "date"

\* the instant an aware datetime denotes, minutes since 00:00 UTC of day 0
Instant(v) == v.day * DayMin + v.min - v.off

\* the aware datetime with utcoffset o that denotes instant u
AtOffset(u, o) == DateTime((u + o) \div DayMin, (u + o) % DayMin, o)

\* datetime + timedelta(minutes = n): wall-clock arithmetic, tzinfo kept
PlusMinutes(v, n) ==
    DateTime((v.day * DayMin + v.min + n) \div DayMin,
             (v.day * DayMin + v.min + n) % DayMin, v.off)

----------------------------------------------------------------------------
(* pytz.timezone('America/Chicago'), the zone CalendarFetcher falls back to *)

StdOffset == -360
DstOffset == -300
\* the offset of the zone's first (local mean time) entry, which
\* datetime.replace(tzinfo = tz) attaches
LmtOffset == -351

\* the instant daylight saving time begins: 02:00 standard time
DstStartUtc == DstStartDay * DayMin + 2 * 60 - StdOffset

\* dt.astimezone(self.local_tz): the offset in force at the instant
astimezone(v) ==
    AtOffset(Instant(v), IF Instant(v) >= DstStartUtc THEN DstOffset ELSE StdOffset)

\* self.local_tz.localize(naive): the offset in force at the wall-clock time
localize(d, m) ==
    DateTime(d, m, IF d * DayMin + m >= DstStartDay * DayMin + 3 * 60
                   THEN DstOffset ELSE StdOffset)

\* start_dt.replace(tzinfo = pytz.UTC)
ReplaceUtc(v) == DateTime(v.day, v.min, 0)

\* the conversion of lines 89-93 (and 106-109, 158-161)
ToLocal(v) == astimezone(IF v.kind = "naive" THEN ReplaceUtc(v) ELSE v)

----------------------------------------------------------------------------
(* icalendar VEVENT components *)

\* rrule is "" when the component has no RRULE
VEvent(s, e, t, r) == [dtstart |-> s, dtend |-> e, summary |-> t, rrule |-> r]

Occ(s, e, t, d) == [start |-> s, end |-> e, title |-> t, date |-> d]

\* CalendarFetcher._parse_event; the empty sequence stands for None
parse_event(event, start_date, end_date) ==
    IF event.dtstart = None \/ event.summary = "" THEN <<>>
    ELSE
      LET start_dt == IF IsDateTime(event.dtstart) THEN ToLocal(event.dtstart)
                      ELSE event.dtstart
          event_date == start_dt.day
          end_dt == IF event.dtend = None THEN None
                    ELSE IF IsDateTime(event.dtend) THEN ToLocal(event.dtend)
                    ELSE event.dtend
      IN IF ~(start_date <= event_date /\ event_date <= end_date) THEN <<>>
         ELSE << Occ(start_dt, end_dt, event.summary, event_date) >>

\* end_dt - start_dt (lines 143-149) raises TypeError when the two are not both
\* dates, both aware datetimes or both naive datetimes
DurationRaises(event) ==
    event.dtend # None /\ event.dtend.kind # event.dtstart.kind

\* the timedelta of lines 143-149 in minutes; None is [known |-> FALSE]
Duration(event) ==
    IF event.dtend = None THEN [known |-> FALSE, minutes |-> 0]
    ELSE IF IsDateTime(event.dtstart)
         THEN [known |-> TRUE, minutes |-> Instant(event.dtend) - Instant(event.dtstart)]
         ELSE [known |-> TRUE, minutes |-> (event.dtend.day - event.dtstart.day) * DayMin]

\* the recurrence rules of the model: rrulestr raises ValueError on any other
RuleIsValid(rrule_str) == rrule_str \in {"FREQ=DAILY", "FREQ=DAILY;COUNT=2"}

\* the number of occurrences a rule generates at most, up to the model's horizon
RuleCount(rrule_str, dtstart) ==
    IF rrule_str = "FREQ=DAILY;COUNT=2" THEN 2 ELSE MaxDay + 2 - dtstart.day

\* the k-th datetime a daily rule generates: the wall-clock time of dtstart,
\* k days later, with the tzinfo of dtstart
RuleOccurrence(dtstart, k) == DateTime(dtstart.day + k, dtstart.min, dtstart.off)

\* rule.between(after, before, inc=True): the generated datetimes i with
\* after <= i <= before, compared as instants
between(rrule_str, dtstart, after, before) ==
    LET n == RuleCount(rrule_str, dtstart)
        gen == [k \in 1 .. (IF n > 0 THEN n ELSE 0) |-> RuleOccurrence(dtstart, k - 1)]
        In(i) == Instant(i) >= Instant(after) /\ Instant(i) <= Instant(before)
    IN SelectSeq(gen, In)

\* a test that lets every occurrence rule.between found pass
InRangeAlways(event_date, start_date, end_date) == TRUE

\* does the occurrence pass the test of lines 203-204
InRange(event_date, start_date, end_date) ==
    start_date <= event_date /\ event_date <= end_date

\* end_time of lines 206-212
EndTime(occurrence, duration) ==
    IF ~duration.known \/ duration.minutes = 0 THEN None
    ELSE IF IsDateTime(occurrence) THEN PlusMinutes(occurrence, duration.minutes)
    ELSE Date(occurrence.day + duration.minutes \div DayMin)

\* CalendarFetcher._parse_recurring_event
parse_recurring_event(event, start_date, end_date) ==
    IF event.dtstart = None \/ event.summary = "" \/ event.rrule = "" THEN <<>>
    ELSE IF DurationRaises(event) THEN <<>>
    ELSE
      LET duration == Duration(event)
          is_all_day == ~IsDateTime(event.dtstart)
          \* lines 158-166: the anchor handed to rrulestr
          anchor == IF is_all_day THEN DateTime(event.dtstart.day, 0, LmtOffset)
                    ELSE ToLocal(event.dtstart)
      IN IF ~RuleIsValid(event.rrule)
         THEN parse_event(event, start_date, end_date)
         ELSE
           LET search_start == localize(start_date, 0)
               \* datetime.max.time() is 23:59:59.999999, the last instant of minute 1439
               search_end == localize(end_date, DayMin - 1)
               found == between(event.rrule, anchor, search_start, search_end)
               occurrences == [i \in 1 .. Len(found) |->
                                 IF is_all_day THEN Date(found[i].day) ELSE found[i]]
               Keep(occurrence) == InRange(occurrence.day, start_date, end_date)
               kept == SelectSeq(occurrences, Keep)
           IN [i \in 1 .. Len(kept) |->
                 Occ(kept[i], EndTime(kept[i], duration), event.summary, kept[i].day)]

----------------------------------------------------------------------------
(* CalendarFetcher.fetch_events *)

\* What the request for one URL yields: the request fails ("unreachable"),
\* Calendar.from_ical fails ("garbled"), or a calendar with its VEVENTs.
Feed(st, comps) == [status |-> st, components |-> comps]

RECURSIVE Concat(_)
Concat(ss) == IF ss = <<>> THEN <<>> ELSE Head(ss) \o Concat(Tail(ss))

\* lines 48-55: what one VEVENT adds to all_events
ComponentEvents(component, start_date, end_date) ==
    IF component.rrule # ""
    THEN parse_recurring_event(component, start_date, end_date)
    ELSE parse_event(component, start_date, end_date)

\* lines 45-55: what the walk over one parsed calendar adds, each occurrence
\* with the place <<feed, component, occurrence>> it was collected at
FeedEvents(feed, f, start_date, end_date) ==
    Concat([c \in 1 .. Len(feed.components) |->
              LET evs == ComponentEvents(feed.components[c], start_date, end_date)
              IN [i \in 1 .. Len(evs) |-> [event |-> evs[i], at |-> <<f, c, i>>]]])

\* a handler that gives up on the remaining URLs
OnFeedExceptionBreak(collected) ==
    [events |-> collected, continue |-> FALSE, raised |-> FALSE]

\* lines 57-58: the handler of a feed's exception keeps what was collected
\* and goes on with the next URL
OnFeedException(collected) ==
    [events |-> collected, continue |-> TRUE, raised |-> FALSE]

\* sort_key (lines 61-71): the instant the start is compared as
sort_key(event) ==
    IF IsDateTime(event.start)
    THEN Instant(IF event.start.kind = "naive"
                 THEN localize(event.start.day, event.start.min) ELSE event.start)
    ELSE Instant(localize(event.start.day, 0))

\* sorted(..., key=...): a stable sort, here by insertion; the result is the
\* permutation, the indices of the list in their sorted order
\* an insertion that puts an element before its equals
RECURSIVE InsertIndexBeforeEquals(_, _, _)
InsertIndexBeforeEquals(order, i, key) ==
    IF order = <<>> THEN <<i>>
    ELSE IF key[Head(order)] < key[i]
         THEN <<Head(order)>> \o InsertIndexBeforeEquals(Tail(order), i, key)
         ELSE <<i>> \o order

RECURSIVE InsertIndex(_, _, _)
InsertIndex(order, i, key) ==
    IF order = <<>> THEN <<i>>
    ELSE IF key[Head(order)] <= key[i]
         THEN <<Head(order)>> \o InsertIndex(Tail(order), i, key)
         ELSE <<i>> \o order

RECURSIVE SortedOrder(_, _)
SortedOrder(n, key) ==
    IF n = 0 THEN <<>> ELSE InsertIndex(SortedOrder(n - 1, key), n, key)

sorted(list) ==
    LET key == [i \in 1 .. Len(list) |-> sort_key(list[i])]
    IN SortedOrder(Len(list), key)

FetchIdle ==
    /\ urls = <<>> /\ window = [start_date |-> 0, end_date |-> 0]
    /\ url_idx = 0 /\ all_events = <<>> /\ origin = <<>>
    /\ fetch_pc = "idle" /\ fetch_result = [order |-> <<>>, events |-> <<>>]

\* one iteration of the loop over self.urls (lines 30-58) on the lists
\* collected so far: the feed's occurrences are appended, or its exception handled
LoopBody(events, places, feed, f, start_date, end_date) ==
    IF feed.status = "ok"
    THEN LET got == FeedEvents(feed, f, start_date, end_date)
         IN [events |-> events \o [i \in 1 .. Len(got) |-> got[i].event],
             places |-> places \o [i \in 1 .. Len(got) |-> got[i].at],
             continue |-> TRUE, raised |-> FALSE]
    ELSE LET h == OnFeedException(events)
         IN [events |-> h.events, places |-> places,
             continue |-> h.continue, raised |-> h.raised]

FetchUrl ==
    /\ fetch_pc = "loop"
    /\ url_idx <= Len(urls)
    /\ LET out == LoopBody(all_events, origin, urls[url_idx], url_idx,
                           window.start_date, window.end_date)
       IN /\ all_events' = out.events
          /\ origin' = out.places
          /\ url_idx' = IF out.continue THEN url_idx + 1 ELSE Len(urls) + 1
          /\ fetch_pc' = IF out.raised THEN "raised" ELSE "loop"
    /\ UNCHANGED <<urls, window, fetch_result, not_fetch>>

\* lines 60-73: the sort and the return
FetchReturn ==
    /\ fetch_pc = "loop"
    /\ url_idx > Len(urls)
    /\ LET order == sorted(all_events)
       IN fetch_result' = [order |-> order,
                           events |-> [i \in 1 .. Len(order) |-> all_events[order[i]]]]
    /\ fetch_pc' = "done"
    /\ UNCHANGED <<urls, window, url_idx, all_events, origin, not_fetch>>

\* fetch_events as a function of what the URLs yield: the loop, then the sort
RECURSIVE Collect(_, _, _, _, _)
Collect(feeds, f, events, start_date, end_date) ==
    IF f > Len(feeds) THEN events
    ELSE LET out == LoopBody(events, <<>>, feeds[f], f, start_date, end_date)
         IN IF out.continue
            THEN Collect(feeds, f + 1, out.events, start_date, end_date)
            ELSE out.events

fetch_events(feeds, start_date, end_date) ==
    LET all == Collect(feeds, 1, <<>>, start_date, end_date)
        order == sorted(all)
    IN [i \in 1 .. Len(order) |-> all[order[i]]]

----------------------------------------------------------------------------
(* The calls of fetch_events the model explores *)

SeqsUpTo(S, n) == UNION {[1 .. k -> S] : k \in 0 .. n}

\* the windows asked for, end_date >= start_date (app.py lines 66-67)
Windows ==
    {w \in [start_date : 1 .. MaxDay, end_date : 1 .. MaxDay] : w.start_date <= w.end_date}

\* 05:30, 06:00 and 15:00 UTC are 23:30 (of the day before), 00:00 and 09:00
\* in standard time
SingleEvents ==
    { VEvent(DateTime(DstStartDay, 330, 0), DateTime(DstStartDay, 360, 0), "late", ""),
      VEvent(DateTime(DstStartDay, 360, 0), DateTime(DstStartDay, 420, 0), "midnight", ""),
      VEvent(Date(DstStartDay), Date(DstStartDay + 1), "holiday", ""),
      VEvent(Naive(1, 900), None, "naive", ""),
      VEvent(Date(1), None, "", "") }

RecurringEvents ==
    { VEvent(s, IF IsDate(s) THEN Date(s.day + 1) ELSE PlusMinutes(s, 30),
             IF IsDate(s) THEN "every day" ELSE "nightly", r) :
        s \in {DateTime(DstStartDay, 330, 0), Date(DstStartDay - 1)},
        r \in {"FREQ=DAILY", "FREQ=FORTNIGHTLY"} }

\* two events of one feed that start at the same instant
TiedEvents ==
    { VEvent(DateTime(DstStartDay, 360, 0), None, "midnight", ""),
      VEvent(Date(DstStartDay), None, "holiday", "") }

Feeds ==
    {Feed("unreachable", <<>>), Feed("garbled", <<>>)}
    \cup {Feed("ok", <<e>>) : e \in SingleEvents \cup RecurringEvents}
    \cup {Feed("ok", <<e, f>>) : e \in TiedEvents, f \in TiedEvents}

FetchInit ==
    /\ urls \in SeqsUpTo(Feeds, MaxFeeds)
    /\ window \in Windows
    /\ url_idx = 1 /\ all_events = <<>> /\ origin = <<>>
    /\ fetch_pc = "loop" /\ fetch_result = [order |-> <<>>, events |-> <<>>]

----------------------------------------------------------------------------
(* The occurrence expander alone: one VEVENT and one window *)

NoEvent == VEvent(None, None, "", "")

ExpandIdle ==
    /\ exp_call = [event |-> NoEvent, start_date |-> 0, end_date |-> 0]
    /\ exp_out = <<>> /\ exp_pc = "idle"

\* 05:30 and 15:00 UTC: 23:30 of the day before and 09:00 in standard time
ExpandStarts ==
    {DateTime(d, m, 0) : d \in {1, DstStartDay}, m \in {330, 900}}
    \cup {Date(d) : d \in {0, 1}}

\* no DTEND, an end equal to the start, an end 30 minutes or one day after it
ExpandEnds(s) ==
    IF IsDate(s) THEN {None, s, Date(s.day + 1)} ELSE {None, s, PlusMinutes(s, 30)}

ExpandRules == {"", "FREQ=DAILY", "FREQ=DAILY;COUNT=2", "FREQ=FORTNIGHTLY"}

ExpandEvents ==
    UNION {{VEvent(s, e, "standup", r) : e \in ExpandEnds(s), r \in ExpandRules} :
             s \in ExpandStarts}

ExpandInit ==
    /\ exp_call \in {[event |-> ev, start_date |-> w.start_date, end_date |-> w.end_date] :
                       ev \in ExpandEvents, w \in Windows}
    /\ exp_out = <<>> /\ exp_pc = "call"

\* the call of lines 48-55 for this VEVENT
Expand ==
    /\ exp_pc = "call"
    /\ exp_out' = ComponentEvents(exp_call.event, exp_call.start_date, exp_call.end_date)
    /\ exp_pc' = "done"
    /\ UNCHANGED <<exp_call, not_exp>>

----------------------------------------------------------------------------
(* PDFGenerator: lengths are in units of 1/Scale point *)

Scale == 11 * 60 * 2
Pt(n) == n * Scale

\* __init__ (lines 11-17)
page_width == (954 * 72 * Scale) \div 264
page_height == (1696 * 72 * Scale) \div 264
margin == Pt(18)

\* the content area (lines 20-21)
content_width == page_width - 2 * margin

\* draw_daily_page, lines 66-70
hour_height == Pt(26)
time_column_width == Pt(50)
event_column_start == margin + time_column_width - Pt(10)
event_column_width == (content_width - time_column_width - Pt(6)) \div 2

\* event['start'].hour
StartHour(event) == event.start.min \div 60

\* event['start'].minute
StartMinute(event) == event.start.min % 60

\* isinstance(e['start'], date) alone: a datetime is a date too
IsAllDayOrTimed(event) == event.start.kind \in {"date", "datetime", "naive"}

\* line 76: isinstance(e['start'], date) and not isinstance(e['start'], datetime)
IsAllDay(event) == event.start.kind = "date"

\* rounding up to the next multiple of m
RoundUp(n, m) == ((n + m - 1) \div m) * m

\* round(n / m) * m: Python rounds to the nearest integer, a half to the even one
Round(n, m) ==
    LET q == n \div m
        r == n % m
    IN IF 2 * r < m THEN q * m
       ELSE IF 2 * r > m THEN (q + 1) * m
       ELSE IF q % 2 = 0 THEN q * m ELSE (q + 1) * m

\* lines 176-183: the duration a box is drawn with, in minutes
duration_minutes(event) ==
    LET raw == IF event.end # None /\ IsDateTime(event.end)
               THEN Instant(event.end) - Instant(event.start)
               ELSE 60
        rounded == Round(raw, 15)
    IN IF rounded > 15 THEN rounded ELSE 15

\* lines 153-166: the timed occurrences that are placed
IsPlaced(event, start_hour, end_hour) ==
    /\ IsDateTime(event.start)
    /\ ~(StartHour(event) < start_hour \/ StartHour(event) >= end_hour)

\* lines 144-148: the y the first hour row of the grid is taken to begin at
grid_top(has_all_day) ==
    page_height - margin - Pt(20) - (IF has_all_day THEN hour_height ELSE 0)

\* lines 172-174: the upper edge of the box of an occurrence
event_top(event, hour, start_hour, has_all_day) ==
    grid_top(has_all_day)
      - (((hour - start_hour) * 60 + StartMinute(event)) * hour_height) \div 60 - Pt(1)

\* lines 184-188: the height of a box of the given displayed duration
box_height(minutes) ==
    LET h == (minutes * hour_height) \div 60 - Pt(1)
    IN IF h > Pt(8) THEN h ELSE Pt(8)

\* lines 199-200: the notes section, right of the primary column
notes_section_start == event_column_start + event_column_width + Pt(10)
notes_section_width == content_width - (notes_section_start - margin)

\* lines 194-204: the width of the box of the i-th (from 0) of n occurrences
event_width(i, n) ==
    IF i > 0 THEN notes_section_width \div (n - 1) ELSE event_column_width

\* a placement that counts the sub-slots of the notes section from i, not i - 1
event_x_from_i(i, n) ==
    IF i > 0 THEN notes_section_start + i * event_width(i, n) ELSE event_column_start

\* lines 195-205: the left edge of the box of the i-th (from 0) of n occurrences
event_x(i, n) ==
    IF i > 0 THEN notes_section_start + (i - 1) * event_width(i, n)
    ELSE event_column_start

\* the keys of time_slots in the order they were inserted
RECURSIVE SlotHours(_, _)
SlotHours(events, seen) ==
    IF events = <<>> THEN <<>>
    ELSE IF StartHour(Head(events)) \in seen THEN SlotHours(Tail(events), seen)
    ELSE <<StartHour(Head(events))>>
           \o SlotHours(Tail(events), seen \cup {StartHour(Head(events))})

\* _draw_events (lines 140-251): the boxes drawn, in drawing order; the i-th
\* (from 0) of the n occurrences of an hour goes to the primary column when
\* i = 0 and to the notes column otherwise
draw_events(events, start_hour, end_hour, has_all_day) ==
    LET Placed(e) == IsPlaced(e, start_hour, end_hour)
        placed == SelectSeq(events, Placed)
        hours == SlotHours(placed, {})
        Bucket(h) == LET InHour(e) == StartHour(e) = h IN SelectSeq(placed, InHour)
    IN Concat([k \in 1 .. Len(hours) |->
                 LET hour_events == Bucket(hours[k])
                 IN [i \in 1 .. Len(hour_events) |->
                       [event |-> hour_events[i], hour |-> hours[k],
                        i |-> i - 1, n |-> Len(hour_events),
                        column |-> IF i - 1 > 0 THEN "notes" ELSE "primary",
                        duration_minutes |-> duration_minutes(hour_events[i]),
                        x |-> event_x(i - 1, Len(hour_events)),
                        width |-> event_width(i - 1, Len(hour_events)),
                        y |-> event_top(hour_events[i], hours[k], start_hour, has_all_day)
                                - box_height(duration_minutes(hour_events[i])),
                        height |-> box_height(duration_minutes(hour_events[i]))]]])

\* lines 98-130: the hour rows drawn from y_pos down; the loop stops once a
\* row's line is below margin + 100
RECURSIVE HourRows(_, _, _)
HourRows(hour, end_hour, y_pos) ==
    IF hour >= end_hour THEN <<>>
    ELSE LET row == [hour |-> hour, top |-> y_pos, bottom |-> y_pos - hour_height]
         IN IF row.bottom < margin + Pt(100) THEN <<row>>
            ELSE <<row>> \o HourRows(hour + 1, end_hour, row.bottom)

\* _draw_todo_section, lines 333-336
checkbox_size == Pt(10)
num_lines == 4

\* _draw_todo_section (lines 325-356): the checkboxes drawn below y_start, each
\* the rectangle c.rect(x, y, width, height) is given
draw_todo_section(y_start) ==
    LET y_pos == y_start - Pt(14)
        available_space == y_pos - margin + Pt(22)
        line_height == available_space \div num_lines
    IN [i \in 1 .. num_lines |->
          [x |-> margin, y |-> y_pos - (i - 1) * line_height - checkbox_size,
           width |-> checkbox_size, height |-> checkbox_size]]

\* draw_daily_page (lines 46-138): what is drawn on the page of current_date
draw_daily_page(current_date, events, start_hour, end_hour, show_todos) ==
    LET \* below the date header and its line (lines 49-63)
        y_header == page_height - margin - Pt(12) - (17 * Scale) \div 2
        all_day_events == SelectSeq(events, IsAllDay)
        has_row == all_day_events # <<>>
        y_grid == IF has_row THEN y_header - hour_height ELSE y_header
        rows == HourRows(start_hour, end_hour, y_grid)
        has_all_day == Len(all_day_events) > 0
        schedule_bottom == IF rows = <<>> THEN y_grid ELSE rows[Len(rows)].bottom
    IN [date |-> current_date,
        events |-> events,
        all_day_row |-> has_row,
        all_day |-> IF has_row THEN all_day_events ELSE <<>>,
        rows |-> rows,
        schedule_bottom |-> schedule_bottom,
        boxes |-> draw_events(events, start_hour, end_hour, has_all_day),
        todos |-> show_todos,
        checkboxes |-> IF show_todos THEN draw_todo_section(schedule_bottom) ELSE <<>>,
        finished |-> FALSE]

\* a count of days that leaves the last one out
total_days_exclusive(start_date, end_date) == end_date - start_date

\* line 32
total_days(start_date, end_date) == (end_date - start_date) + 1

\* line 37: the occurrences filed under the date of the page
day_events(events, current_date) ==
    LET OnDate(e) == e.date = current_date IN SelectSeq(events, OnDate)

\* c.showPage() and c.save() close the page being drawn
FinishLast(ps) == [ps EXCEPT ![Len(ps)].finished = TRUE]

PdfIdle ==
    /\ pdf_call = [start_date |-> 0, end_date |-> 0, events |-> <<>>,
                   start_hour |-> 0, end_hour |-> 0, show_todos |-> FALSE]
    /\ day_offset = 0 /\ pages = <<>> /\ pdf_pc = "idle"

\* lines 35-40: the page of the next date is drawn
DrawPage ==
    /\ pdf_pc = "draw"
    /\ LET current_date == pdf_call.start_date + day_offset
       IN pages' = Append(pages,
                     draw_daily_page(current_date, day_events(pdf_call.events, current_date),
                                     pdf_call.start_hour, pdf_call.end_hour,
                                     pdf_call.show_todos))
    /\ pdf_pc' = IF day_offset < total_days(pdf_call.start_date, pdf_call.end_date) - 1
                 THEN "show" ELSE "save"
    /\ UNCHANGED <<pdf_call, day_offset, not_pdf>>

\* lines 41-42: c.showPage() closes the page, and the loop goes on to the next day
ShowPage ==
    /\ pdf_pc = "show"
    /\ pages' = FinishLast(pages)
    /\ day_offset' = day_offset + 1
    /\ pdf_pc' = "draw"
    /\ UNCHANGED <<pdf_call, not_pdf>>

\* line 44: c.save() closes the page being drawn, if any, and writes the file
Save ==
    /\ pdf_pc = "save"
    /\ pages' = IF pages = <<>> THEN pages ELSE FinishLast(pages)
    /\ pdf_pc' = "done"
    /\ UNCHANGED <<pdf_call, day_offset, not_pdf>>

----------------------------------------------------------------------------
(* The calls of generate_pdf the model explores: occurrences as fetch_events
   returns them *)

TimedOcc(d, h, m, dur, t) ==
    Occ(localize(d, h * 60 + m),
        IF dur = 0 THEN None ELSE PlusMinutes(localize(d, h * 60 + m), dur), t, d)

AllDayOcc(d, t) == Occ(Date(d), Date(d + 1), t, d)

PdfEvents ==
    {TimedOcc(d, 9, 0, dur, "meeting") : d \in {1, 2}, dur \in {5, 37}}
    \cup {TimedOcc(1, 9, 0, 0, "meeting")}
    \cup {TimedOcc(1, 7, 30, dur, "early") : dur \in {0, 120}}
    \cup {AllDayOcc(d, "holiday") : d \in {1, 2}}

\* a list in the order fetch_events returns
IsSorted(list) ==
    \A i \in 1 .. Len(list) - 1 : sort_key(list[i]) <= sort_key(list[i + 1])

\* the hour ranges asked for: end_hour - start_hour is in 8..12 (app.py lines 42-47)
HourRanges ==
    {[start_hour |-> 6, end_hour |-> 17], [start_hour |-> 8, end_hour |-> 20],
     [start_hour |-> 9, end_hour |-> 17]}

PdfInit ==
    /\ \E w \in Windows, hr \in HourRanges, todo \in BOOLEAN :
       \E evs \in {l \in SeqsUpTo(PdfEvents, MaxPdfEvents) : IsSorted(l)} :
         pdf_call = [start_date |-> w.start_date, end_date |-> w.end_date, events |-> evs,
                     start_hour |-> hr.start_hour, end_hour |-> hr.end_hour,
                     show_todos |-> todo]
    /\ day_offset = 0 /\ pages = <<>>
    /\ pdf_pc = IF 0 < total_days(pdf_call.start_date, pdf_call.end_date)
                THEN "draw" ELSE "save"

----------------------------------------------------------------------------
(* PDFGenerator._wrap_text: a string is the sequence of its characters *)

Ellipsis == <<".", ".", ".">>

\* s[:k]
Prefix(str, k) ==
    LET n == IF k >= 0 THEN (IF k < Len(str) THEN k ELSE Len(str))
             ELSE (IF Len(str) + k > 0 THEN Len(str) + k ELSE 0)
    IN SubSeq(str, 1, n)

\* s.strip()
RECURSIVE Strip(_)
Strip(str) ==
    IF str = <<>> THEN <<>>
    ELSE IF Head(str) = " " THEN Strip(Tail(str))
    ELSE IF str[Len(str)] = " " THEN Strip(SubSeq(str, 1, Len(str) - 1))
    ELSE str

\* s.split(): the maximal runs of characters that are not whitespace
RECURSIVE SplitFrom(_, _)
SplitFrom(str, word) ==
    IF str = <<>> THEN (IF word = <<>> THEN <<>> ELSE <<word>>)
    ELSE IF Head(str) = " "
         THEN (IF word = <<>> THEN <<>> ELSE <<word>>) \o SplitFrom(Tail(str), <<>>)
         ELSE SplitFrom(Tail(str), Append(word, Head(str)))

Split(str) == SplitFrom(str, <<>>)

\* " ".join(lines)
RECURSIVE Join(_)
Join(lines) ==
    IF lines = <<>> THEN <<>>
    ELSE IF Len(lines) = 1 THEN lines[1]
    ELSE lines[1] \o <<" ">> \o Join(Tail(lines))

\* a test that lets one more line through
MaxLinesExceeded(lines, max_lines) == Len(lines) > max_lines

\* lines 378-380: len(lines) >= max_lines
MaxLinesReached(lines, max_lines) == Len(lines) >= max_lines

\* lines 367-382: the loop over the words, from the lines closed so far and
\* the line being filled
RECURSIVE WrapWords(_, _, _, _, _)
WrapWords(words, lines, current_line, max_chars_per_line, max_lines) ==
    IF words = <<>> THEN [lines |-> lines, current_line |-> current_line]
    ELSE
      LET word == Head(words)
      IN IF Len(current_line \o <<" ">> \o word) > max_chars_per_line
         THEN LET closed ==
                    IF current_line # <<>>
                    THEN [lines |-> Append(lines, Strip(current_line)),
                          current_line |-> word]
                    ELSE [lines |-> Append(lines,
                                      Prefix(word, max_chars_per_line - 3) \o Ellipsis),
                          current_line |-> <<>>]
              IN IF MaxLinesReached(closed.lines, max_lines) THEN closed
                 ELSE WrapWords(Tail(words), closed.lines, closed.current_line,
                                max_chars_per_line, max_lines)
         ELSE WrapWords(Tail(words), lines,
                        IF current_line # <<>> THEN current_line \o <<" ">> \o word
                        ELSE word,
                        max_chars_per_line, max_lines)

\* PDFGenerator._wrap_text (lines 358-395)
wrap_text(text, max_chars_per_line, max_lines) ==
    IF text = <<>> THEN << <<>> >>
    ELSE
      LET words == Split(text)
          loop == WrapWords(words, <<>>, <<>>, max_chars_per_line, max_lines)
          \* lines 384-386
          lines == IF loop.current_line # <<>> /\ Len(loop.lines) < max_lines
                   THEN Append(loop.lines, Strip(loop.current_line))
                   ELSE loop.lines
          \* lines 388-393
          marked == IF /\ Len(lines) = max_lines
                       /\ Len(words) > Len(Split(Join(lines)))
                       /\ lines # <<>>
                       /\ Len(lines[Len(lines)]) > 3
                    THEN [lines EXCEPT ![Len(lines)] =
                            SubSeq(@, 1, Len(@) - 3) \o Ellipsis]
                    ELSE lines
      IN IF marked # <<>> THEN marked ELSE << <<>> >>

WrapIdle ==
    /\ wrap_call = [text |-> <<>>, max_chars_per_line |-> 0, max_lines |-> 0]
    /\ wrap_out = <<>> /\ wrap_pc = "idle"

\* int((event_width - 10) / char_width) is negative for a narrow box
MinChars == -1

Alphabet == {"a", "b", " "}

WrapInit ==
    /\ wrap_call \in [text : SeqsUpTo(Alphabet, MaxTextLen),
                      max_chars_per_line : MinChars .. MaxChars,
                      max_lines : 1 .. MaxLines]
    /\ wrap_out = <<>> /\ wrap_pc = "call"

WrapText ==
    /\ wrap_pc = "call"
    /\ wrap_out' = wrap_text(wrap_call.text, wrap_call.max_chars_per_line,
                             wrap_call.max_lines)
    /\ wrap_pc' = "done"
    /\ UNCHANGED <<wrap_call, not_wrap>>

----------------------------------------------------------------------------
(* app.generate_calendar *)

NoResponse == [status |-> 0, error |-> ""]
NoArgs == [start_date |-> 0, end_date |-> 0, start_hour |-> 0, end_hour |-> 0]

\* jsonify({'error': message}), 400
BadRequest(message) == [status |-> 400, error |-> message]

\* line 101: the answer to any exception
GenericFailure == [status |-> 500, error |-> "An error occurred generating the calendar"]

\* send_file(output_path, ...)
FileResponse == [status |-> 200, error |-> ""]

\* a form field that holds text: missing, not of the expected format, or a value
Missing == [kind |-> "missing", value |-> 0]
Malformed == [kind |-> "malformed", value |-> 0]
Value(v) == [kind |-> "value", value |-> v]

\* int(request.form.get(name, default)) raises ValueError on a malformed field
IntRaises(field) == field.kind = "malformed"
IntOf(field, default) == IF field.kind = "missing" THEN default ELSE field.value

\* datetime.strptime(s, '%Y-%m-%d') raises ValueError on a malformed date;
\* request.form.get(name, '') is '' for a missing field
StrptimeRaises(field) == field.kind = "malformed"

\* today.weekday(): day 0 of the model is a Monday
Weekday(d) == d % 7

\* lines 53-57: the Monday after today
NextMonday(today) ==
    LET days_ahead == 0 - Weekday(today)
    IN today + (IF days_ahead <= 0 THEN days_ahead + 7 ELSE days_ahead)

\* CalendarFetcher.__init__ line 10: the URLs of a comma-separated text
UrlList(ical_urls) ==
    LET NotBlank(w) == Strip(w) # <<>>
        RECURSIVE Pieces(_, _)
        Pieces(str, piece) ==
            IF str = <<>> THEN <<piece>>
            ELSE IF Head(str) = "," THEN <<piece>> \o Pieces(Tail(str), <<>>)
            ELSE Pieces(Tail(str), Append(piece, Head(str)))
        kept == SelectSeq(Pieces(ical_urls, <<>>), NotBlank)
    IN [i \in 1 .. Len(kept) |-> Strip(kept[i])]

\* lines 16-67: the form is read and validated; the outcome is an answer or
\* the arguments of the calls that follow
Validate(f) ==
    LET ical_urls == Strip(f.ical_urls)
        start_hour == IntOf(f.start_hour, 6)
        end_hour == IntOf(f.end_hour, 17)
        duration == end_hour - start_hour
        start_date == IF f.start_date.kind = "value" THEN f.start_date.value
                      ELSE NextMonday(f.today)
        end_date == IF f.end_date.kind = "value" THEN f.end_date.value
                    ELSE start_date + 6
        Answer(r) == [answer |-> r, args |-> NoArgs]
    IN IF IntRaises(f.start_hour) \/ IntRaises(f.end_hour) THEN Answer(GenericFailure)
       ELSE IF ical_urls = <<>>
            THEN Answer(BadRequest("Please provide at least one iCal URL"))
       ELSE IF duration < 8
            THEN Answer(BadRequest("Time range must be at least 8 hours"))
       ELSE IF duration > 12
            THEN Answer(BadRequest("Time range cannot exceed 12 hours"))
       ELSE IF StrptimeRaises(f.start_date) THEN Answer(GenericFailure)
       ELSE IF StrptimeRaises(f.end_date) THEN Answer(GenericFailure)
       ELSE IF end_date < start_date
            THEN Answer(BadRequest("End date must be on or after start date"))
       ELSE [answer |-> NoResponse,
             args |-> [start_date |-> start_date, end_date |-> end_date,
                       start_hour |-> start_hour, end_hour |-> end_hour]]

AppIdle ==
    /\ form = [ical_urls |-> <<>>, start_date |-> Missing, end_date |-> Missing,
               start_hour |-> Missing, end_hour |-> Missing, show_todos |-> FALSE,
               today |-> 0]
    /\ app_pc = "idle" /\ app_args = NoArgs /\ fetch_calls = <<>>
    /\ output_file = "none" /\ response = NoResponse

\* the requests the model explores
AppInit ==
    /\ form \in [ical_urls : {<<>>, <<" ">>, <<",">>, <<"u">>, <<"u", ",", "v">>},
                 start_date : {Missing, Malformed, Value(1), Value(2)},
                 end_date : {Missing, Malformed, Value(1), Value(2)},
                 start_hour : {Missing, Malformed, Value(9)},
                 end_hour : {Missing, Value(16), Value(22)},
                 show_todos : BOOLEAN,
                 today : {0, 3}]
    /\ app_pc = "validate" /\ app_args = NoArgs /\ fetch_calls = <<>>
    /\ output_file = "none" /\ response = NoResponse

\* lines 16-67
ValidateRequest ==
    /\ app_pc = "validate"
    /\ LET v == Validate(form)
       IN /\ app_args' = v.args
          /\ response' = v.answer
          /\ app_pc' = IF v.answer = NoResponse THEN "fetch" ELSE "responded"
    /\ UNCHANGED <<form, fetch_calls, output_file, not_app>>

\* lines 69-71: fetch_events absorbs the failures of the feeds and returns
FetchCalendar ==
    /\ app_pc = "fetch"
    /\ fetch_calls' = Append(fetch_calls,
                        [urls |-> UrlList(form.ical_urls),
                         start_date |-> app_args.start_date,
                         end_date |-> app_args.end_date])
    /\ app_pc' = "generate"
    /\ UNCHANGED <<form, app_args, output_file, response, not_app>>

\* lines 74-85: the document is written, or writing it raises
GenerateDocument ==
    /\ app_pc = "generate"
    /\ \E written \in BOOLEAN :
         IF written
         THEN output_file' = "written" /\ app_pc' = "send" /\ UNCHANGED response
         ELSE UNCHANGED output_file /\ app_pc' = "responded" /\ response' = GenericFailure
    /\ UNCHANGED <<form, app_args, fetch_calls, not_app>>

\* lines 87-101: the file is sent and removed, or sending raises, the file is
\* removed and the exception answered
SendFile ==
    /\ app_pc = "send"
    /\ \E sent \in BOOLEAN : response' = IF sent THEN FileResponse ELSE GenericFailure
    /\ output_file' = "removed"
    /\ app_pc' = "responded"
    /\ UNCHANGED <<form, app_args, fetch_calls, not_app>>

----------------------------------------------------------------------------
(* Specifications *)

\* fetch_events over the feeds of its URLs
Init == FetchInit /\ ExpandIdle /\ PdfIdle /\ WrapIdle /\ AppIdle

Next == FetchUrl \/ FetchReturn

Spec == Init /\ [][Next]_vars

\* the expansion of one VEVENT
InitExpand == ExpandInit /\ FetchIdle /\ PdfIdle /\ WrapIdle /\ AppIdle

NextExpand == Expand

SpecExpand == InitExpand /\ [][NextExpand]_vars

\* generate_pdf over the occurrences of a window
InitPdf == PdfInit /\ FetchIdle /\ ExpandIdle /\ WrapIdle /\ AppIdle

NextPdf == DrawPage \/ ShowPage \/ Save

SpecPdf == InitPdf /\ [][NextPdf]_vars

\* _wrap_text on one text
InitWrap == WrapInit /\ FetchIdle /\ ExpandIdle /\ PdfIdle /\ AppIdle

NextWrap == WrapText

SpecWrap == InitWrap /\ [][NextWrap]_vars

\* one request to /generate
InitApp == AppInit /\ FetchIdle /\ ExpandIdle /\ PdfIdle /\ WrapIdle

NextApp == ValidateRequest \/ FetchCalendar \/ GenerateDocument \/ SendFile

SpecApp == InitApp /\ [][NextApp]_vars

----------------------------------------------------------------------------
(* Properties of CalendarFetcher.fetch_events, checked under Spec *)

IsOk(feed) == feed.status = "ok"

\* C1: fetch_events never raises because of a feed that fails to fetch or to
\* parse, and what it returns is what it returns for the same feeds with the
\* failing ones removed: a failing feed contributes nothing and the feeds
\* after it are still processed.
C1_FailingFeedsAreSkipped ==
    /\ fetch_pc # "raised"
    /\ fetch_pc = "done" =>
         fetch_result.events =
           fetch_events(SelectSeq(urls, IsOk), window.start_date, window.end_date)

\* a finished call in which a failing feed came before a feed that contributed
C1_Witness ==
    /\ fetch_pc = "done"
    /\ \E i, j \in 1 .. Len(urls) :
         /\ i < j /\ ~IsOk(urls[i]) /\ IsOk(urls[j])
         /\ \E k \in 1 .. Len(origin) : origin[k][1] = j

\* the instant an occurrence is displayed at: its start, a bare date taken as
\* local midnight of that date
DisplayInstant(e) ==
    IF e.start.kind = "date" THEN Instant(localize(e.start.day, 0)) ELSE Instant(e.start)

\* <<feed, component, occurrence>> a before b
CollectedBefore(a, b) ==
    \/ a[1] < b[1]
    \/ a[1] = b[1] /\ a[2] < b[2]
    \/ a[1] = b[1] /\ a[2] = b[2] /\ a[3] < b[3]

\* C2: the returned list holds the collected occurrences in non-decreasing
\* order of display instant, and occurrences with the same display instant
\* are in the order they were collected in: feed, then place in the feed.
C2_SortedAndStable ==
    fetch_pc = "done" =>
      LET order == fetch_result.order
          events == fetch_result.events
      IN /\ Len(order) = Len(all_events) /\ Len(events) = Len(all_events)
         /\ {order[i] : i \in 1 .. Len(order)} = 1 .. Len(all_events)
         /\ \A i \in 1 .. Len(events) : events[i] = all_events[order[i]]
         /\ \A i, j \in 1 .. Len(events) :
              i < j =>
                /\ DisplayInstant(events[i]) <= DisplayInstant(events[j])
                /\ DisplayInstant(events[i]) = DisplayInstant(events[j]) =>
                     CollectedBefore(origin[order[i]], origin[order[j]])

\* a returned list with a tie between two feeds, a tie inside one feed, and
\* two occurrences the sort had to exchange
C2_Witness ==
    /\ fetch_pc = "done"
    /\ \E i, j \in 1 .. Len(fetch_result.events) :
         /\ i < j
         /\ DisplayInstant(fetch_result.events[i]) = DisplayInstant(fetch_result.events[j])
         /\ fetch_result.events[i].start.kind # fetch_result.events[j].start.kind
         /\ origin[fetch_result.order[i]][1] < origin[fetch_result.order[j]][1]
    /\ \E i, j \in 1 .. Len(fetch_result.events) :
         /\ i < j
         /\ DisplayInstant(fetch_result.events[i]) = DisplayInstant(fetch_result.events[j])
         /\ origin[fetch_result.order[i]][1] = origin[fetch_result.order[j]][1]
    /\ \E i \in 1 .. Len(fetch_result.order) : fetch_result.order[i] # i

----------------------------------------------------------------------------
(* Properties of the occurrence expander, checked under SpecExpand *)

\* the call expands a timed event that recurs daily without bound, lasts a
\* positive time and begins before the window
DailyTimedBeforeWindow ==
    /\ IsDateTime(exp_call.event.dtstart)
    /\ exp_call.event.summary # ""
    /\ exp_call.event.rrule = "FREQ=DAILY"
    /\ exp_call.event.dtend # None
    /\ ~DurationRaises(exp_call.event)
    /\ Duration(exp_call.event).minutes > 0
    /\ ToLocal(exp_call.event.dtstart).day < exp_call.start_date

\* C8 (as claimed): for such an event _parse_recurring_event yields exactly
\* one occurrence for each date of the window, in date order, each starting
\* at the local time of day of the first and ending the duration later.
C8_OneOccurrencePerWindowDate ==
    (exp_pc = "done" /\ DailyTimedBeforeWindow) =>
      /\ Len(exp_out) = exp_call.end_date - exp_call.start_date + 1
      /\ \A i \in 1 .. Len(exp_out) :
           /\ exp_out[i].date = exp_call.start_date + i - 1
           /\ exp_out[i].start.kind = "datetime"
           /\ exp_out[i].start.day = exp_out[i].date
           /\ exp_out[i].start.min = ToLocal(exp_call.event.dtstart).min
           /\ exp_out[i].end =
                PlusMinutes(exp_out[i].start, Duration(exp_call.event).minutes)

\* the call expands, by a rule rrulestr accepts, an event whose start and end
\* are of the same kind, so that end - start is known
DurationIsKnown ==
    /\ exp_call.event.dtstart # None
    /\ exp_call.event.dtend # None
    /\ ~DurationRaises(exp_call.event)
    /\ RuleIsValid(exp_call.event.rrule)

\* C11 (as claimed): when end - start of a recurring event is known, every
\* occurrence _parse_recurring_event emits ends at its start plus that
\* duration; for a duration of zero the end is the start, never None.
C11_EndIsStartPlusDuration ==
    (exp_pc = "done" /\ DurationIsKnown) =>
      \A i \in 1 .. Len(exp_out) :
        exp_out[i].end =
          IF IsDateTime(exp_out[i].start)
          THEN PlusMinutes(exp_out[i].start, Duration(exp_call.event).minutes)
          ELSE Date(exp_out[i].start.day + Duration(exp_call.event).minutes \div DayMin)

----------------------------------------------------------------------------
(* Properties of PDFGenerator.generate_pdf, checked under SpecPdf *)

\* the occurrences of the call filed under date d, in the order of the list
FiledUnder(d) ==
    LET Same(e) == e.date = d IN SelectSeq(pdf_call.events, Same)

\* C4: generate_pdf emits one page for each date of the window, in ascending
\* date order, each page closed before the next is begun, and the page of a
\* date is laid out with exactly the occurrences filed under that date.
C4_OnePagePerDate ==
    /\ \A i \in 1 .. Len(pages) :
         /\ pages[i].date = pdf_call.start_date + i - 1
         /\ pages[i].events = FiledUnder(pages[i].date)
         /\ i < Len(pages) => pages[i].finished
    /\ pdf_pc = "done" =>
         /\ Len(pages) = pdf_call.end_date - pdf_call.start_date + 1
         /\ \A i \in 1 .. Len(pages) : pages[i].finished

\* a finished document of three pages, one with occurrences and one without
C4_Witness ==
    /\ pdf_pc = "done"
    /\ Len(pages) = 3
    /\ pdf_call.end_hour - pdf_call.start_hour \in 8 .. 12
    /\ \E i, j \in 1 .. Len(pages) : pages[i].events # <<>> /\ pages[j].events = <<>>

\* the boxes of all pages
AllBoxes == UNION {{p.boxes[k] : k \in 1 .. Len(p.boxes)} : p \in {pages[i] : i \in 1 .. Len(pages)}}

\* end - start of a timed occurrence with a timed end, in minutes
Lasts(e, n) ==
    /\ e.start.kind = "datetime" /\ e.end.kind = "datetime"
    /\ Instant(e.end) - Instant(e.start) = n

\* C5 (as claimed): an occurrence of 37 minutes is displayed with a duration
\* of 45 minutes and one of 5 minutes with the minimum of 15 minutes.
C5_ThirtySevenShownAsFortyFive ==
    \A b \in AllBoxes :
      /\ Lasts(b.event, 37) => b.duration_minutes = 45
      /\ Lasts(b.event, 5) => b.duration_minutes = 15

\* C5 (amended): an occurrence of 37 minutes is displayed with a duration of
\* 30 minutes, the nearest multiple of 15, and one of 5 minutes with the
\* minimum of 15 minutes.
C5_RoundedToNearestQuarter ==
    \A b \in AllBoxes :
      /\ Lasts(b.event, 37) => b.duration_minutes = 30
      /\ Lasts(b.event, 5) => b.duration_minutes = 15

\* boxes were drawn for an occurrence of 37 minutes and for one of 5 minutes
C5_Witness ==
    /\ \E b \in AllBoxes : Lasts(b.event, 37)
    /\ \E b \in AllBoxes : Lasts(b.event, 5)

\* C10: a page has the all-day row exactly when an occurrence filed under its
\* date starts on a bare date; the row holds exactly those occurrences, no
\* box of the hourly grid holds one of them, and the row holds no occurrence
\* with a timed start.
C10_AllDayRowOnlyForBareDates ==
    \A i \in 1 .. Len(pages) :
      LET p == pages[i]
          bare == {k \in 1 .. Len(pdf_call.events) :
                     /\ pdf_call.events[k].date = p.date
                     /\ pdf_call.events[k].start.kind = "date"}
      IN /\ p.all_day_row <=> bare # {}
         /\ {p.all_day[k] : k \in 1 .. Len(p.all_day)} = {pdf_call.events[k] : k \in bare}
         /\ Len(p.all_day) = Cardinality(bare)
         /\ \A k \in 1 .. Len(p.boxes) : p.boxes[k].event.start.kind = "datetime"
         /\ \A k \in 1 .. Len(p.all_day) : p.all_day[k].start.kind = "date"

\* a window of three days with one all-day occurrence, on day 2, and a timed
\* occurrence drawn in a box: only the page of day 2 has the all-day row
C10_Witness ==
    /\ pdf_pc = "done"
    /\ Len(pages) = 3
    /\ Cardinality({k \in 1 .. Len(pdf_call.events) :
                      pdf_call.events[k].start.kind = "date"}) = 1
    /\ \E k \in 1 .. Len(pdf_call.events) :
         /\ pdf_call.events[k].start.kind = "date"
         /\ pdf_call.events[k].date = pdf_call.start_date + 1
    /\ pages[2].all_day_row /\ ~pages[1].all_day_row /\ ~pages[3].all_day_row
    /\ \E i \in 1 .. 3 : pages[i].boxes # <<>>

\* C12 (as claimed): on a page drawn with the to-do section disabled the
\* hourly grid is never cut short: it has one row for each hour of
\* start_hour .. end_hour - 1, in order, with or without the all-day row.
C12_FullGridWithoutTodos ==
    \A i \in 1 .. Len(pages) :
      ~pages[i].todos =>
        /\ Len(pages[i].rows) = pdf_call.end_hour - pdf_call.start_hour
        /\ \A k \in 1 .. Len(pages[i].rows) :
             pages[i].rows[k].hour = pdf_call.start_hour + k - 1

\* do the rectangles of two boxes intersect in more than an edge
Intersect(a, b) ==
    /\ a.x < b.x + b.width /\ b.x < a.x + a.width
    /\ a.y < b.y + b.height /\ b.y < a.y + a.height

\* C13 (as claimed): no two boxes _draw_events places on a page overlap,
\* whatever the hours the two occurrences start in.
C13_NoTwoBoxesOverlap ==
    \A i \in 1 .. Len(pages) :
      \A k, l \in 1 .. Len(pages[i].boxes) :
        k < l => ~Intersect(pages[i].boxes[k], pages[i].boxes[l])

\* the timed occurrences of a page that start in hour h, in the order of the
\* list, and the boxes drawn for that hour, in drawing order
StartingIn(p, h) ==
    LET In(e) == IsDateTime(e.start) /\ StartHour(e) = h IN SelectSeq(p.events, In)
BoxesOf(p, h) ==
    LET In(b) == b.hour = h IN SelectSeq(p.boxes, In)

\* C14: of the n timed occurrences of a page that start in one hour of
\* [start_hour, end_hour), the first in list order has the primary column at
\* its full width and the i-th further one the i-th of n - 1 equal parts of
\* the notes section; the n boxes are side by side without overlap, between
\* the left and the right margin. Occurrences that start in another hour
\* have no box.
C14_ColumnsWithinAnHour ==
    \A j \in 1 .. Len(pages) : \A h \in 0 .. 23 :
      LET bucket == StartingIn(pages[j], h)
          bs == BoxesOf(pages[j], h)
          n == Len(bucket)
      IN IF h < pdf_call.start_hour \/ h >= pdf_call.end_hour THEN bs = <<>>
         ELSE /\ Len(bs) = n
              /\ \A i \in 1 .. n :
                   /\ bs[i].event = bucket[i]
                   /\ margin <= bs[i].x
                   /\ bs[i].x + bs[i].width <= page_width - margin
                   /\ i = 1 => /\ bs[i].x = event_column_start
                               /\ bs[i].width = event_column_width
                   /\ i > 1 => /\ bs[i].width * (n - 1) = notes_section_width
                               /\ bs[i].x = notes_section_start + (i - 2) * bs[i].width
                   /\ \A k \in 1 .. n :
                        i < k => bs[i].x + bs[i].width <= bs[k].x

\* a page with three occurrences in one hour, so that the notes section is
\* divided in two
C14_Witness ==
    \E j \in 1 .. Len(pages) : \E h \in 0 .. 23 :
      /\ Len(BoxesOf(pages[j], h)) = 3
      /\ BoxesOf(pages[j], h)[2].x < BoxesOf(pages[j], h)[3].x

\* C15 (as claimed): a page drawn with the to-do section has exactly 4
\* checkboxes, equally spaced, the first below the last line of the grid, and
\* the lower edge of none of them is below the bottom margin.
C15_FourCheckboxesAboveMargin ==
    \A i \in 1 .. Len(pages) :
      pages[i].todos =>
        LET cb == pages[i].checkboxes
        IN /\ Len(cb) = 4
           /\ cb[1].y + cb[1].height < pages[i].schedule_bottom
           /\ \A k \in 1 .. 2 : cb[k].y - cb[k + 1].y = cb[k + 1].y - cb[k + 2].y
           /\ \A k \in 1 .. 3 : cb[k].y > cb[k + 1].y
           /\ \A k \in 1 .. 4 : cb[k].y >= margin

----------------------------------------------------------------------------
(* Properties of PDFGenerator._wrap_text, checked under SpecWrap *)

\* C6: for max_lines >= 1, _wrap_text returns at least one line and at most
\* max_lines lines, and exactly one empty line for a text without words.
C6_BetweenOneAndMaxLines ==
    (wrap_pc = "done" /\ wrap_call.max_lines >= 1) =>
      /\ Len(wrap_out) >= 1
      /\ Len(wrap_out) <= wrap_call.max_lines
      /\ (\A i \in 1 .. Len(wrap_call.text) : wrap_call.text[i] = " ") =>
           wrap_out = << <<>> >>

\* a text of more words than max_lines, wrapped into max_lines >= 2 lines
C6_Witness ==
    /\ wrap_pc = "done"
    /\ wrap_call.max_lines >= 2
    /\ Len(wrap_out) = wrap_call.max_lines
    /\ Cardinality({i \in 1 .. Len(wrap_call.text) :
                      /\ wrap_call.text[i] # " "
                      /\ (i = 1 \/ wrap_call.text[i - 1] = " ")}) > wrap_call.max_lines

\* C7 (as claimed): for max_chars_per_line >= 3 and max_lines >= 1, no line
\* returned is longer than max_chars_per_line.
C7_NoLineLongerThanBudget ==
    (wrap_pc = "done" /\ wrap_call.max_chars_per_line >= 3 /\ wrap_call.max_lines >= 1) =>
      \A i \in 1 .. Len(wrap_out) : Len(wrap_out[i]) <= wrap_call.max_chars_per_line

\* C16 (as claimed): a text that is one word of at most max_chars_per_line
\* characters is returned, for max_lines >= 1, as the one line holding the
\* word unchanged.
C16_ShortWordIsKept ==
    ( /\ wrap_pc = "done"
      /\ wrap_call.max_lines >= 1
      /\ wrap_call.text # <<>>
      /\ \A i \in 1 .. Len(wrap_call.text) : wrap_call.text[i] # " "
      /\ Len(wrap_call.text) <= wrap_call.max_chars_per_line ) =>
      wrap_out = <<wrap_call.text>>

----------------------------------------------------------------------------
(* Properties of app.generate_calendar, checked under SpecApp *)

\* the hour fields are integers or absent, and the request is invalid in one
\* of the four ways: no source, a date that is no date, a time range outside
\* 8..12 hours, an end date before the start date
InvalidInput ==
    /\ ~IntRaises(form.start_hour) /\ ~IntRaises(form.end_hour)
    /\ \/ Strip(form.ical_urls) = <<>>
       \/ form.start_date.kind = "malformed"
       \/ form.end_date.kind = "malformed"
       \/ IntOf(form.end_hour, 17) - IntOf(form.start_hour, 6) \notin 8 .. 12
       \/ /\ form.start_date.kind = "value" /\ form.end_date.kind = "value"
          /\ form.end_date.value < form.start_date.value

\* C9 (as claimed): each kind of invalid input is answered with status 400 and
\* a message of its own, not with the generic failure of status 500, and
\* then no feed is fetched and no document is generated.
C9_InvalidInputAnswered400 ==
    (app_pc = "responded" /\ InvalidInput) =>
      /\ response.status = 400
      /\ response.error # GenericFailure.error
      /\ fetch_calls = <<>>
      /\ output_file = "none"

====
